---- MODULE Spec2Model ----
(***************************************************************************)
(* AscendCV (cvirus.py): the ResumeBuilder window as a state machine.      *)
(* Program state is the window's fields and the contents of its widgets;   *)
(* each slot (upload_resume, upload_job_description, generate_resume,      *)
(* reset_fields, save_pdf, save_txt) is one action.  Text is modelled by   *)
(* TLA+ strings, so stripping, joining and the prompt template are         *)
(* computed character for character.                                       *)
(***************************************************************************)
EXTENDS Integers, Sequences, FiniteSets, TLC

VARIABLES
    resume_text,            \* self.resume_text
    job_text,               \* self.job_text
    last_saved_file,        \* self.last_saved_file ("None" for None)
    generated_resume_text,  \* self.generated_resume_text
    job_input,              \* contents of the QTextEdit self.job_input
    output_preview,         \* contents of the QTextEdit self.output_preview
    theme_dropdown,         \* current index of self.theme_dropdown (0-based)
    resume_file_label,      \* text of self.resume_file_label
    jd_file_label,          \* text of self.jd_file_label
    last,                   \* the slot that ran last ("init" before any)
    since_reset,            \* reset_fields ran, and no upload or typing since
    picked,                 \* the file the open dialog hands to the upload slot
    reply,                  \* how the endpoint answers the POST of generate_resume
    sent,                   \* the prompts POSTed by the slot that ran last
    raised,                 \* exception that escaped the slot that ran last ("" if none)
    wrote,                  \* what the slot that ran last wrote to disk
    browser                 \* whether the slot that ran last opened the browser

vars ==
    <<resume_text, job_text, last_saved_file, generated_resume_text, job_input,
      output_preview, theme_dropdown, resume_file_label, jd_file_label,
      last, since_reset, picked, reply, sent, raised, wrote, browser>>

fields ==
    <<resume_text, job_text, last_saved_file, generated_resume_text, job_input,
      output_preview, theme_dropdown, resume_file_label, jd_file_label>>

-----------------------------------------------------------------------------
(* Bounds of the model.                                                    *)

\* longest typed text, stored text and generated text that is enumerated
MaxLen == 2
\* longest text of one PDF page or one DOCX paragraph
MaxPageLen == 1
\* most pages of a PDF, most paragraphs of a DOCX
MaxPages == 2

\* characters the enumerated texts are made of: a blank and a letter
Alphabet == {" ", "a"}

RECURSIVE StrOfLen(_)
StrOfLen(n) ==
    IF n = 0 THEN {""}
    ELSE {s \o c : s \in StrOfLen(n - 1), c \in Alphabet}

StrUpTo(n) == UNION {StrOfLen(k) : k \in 0..n}

Texts == StrUpTo(MaxLen)
PageTexts == StrUpTo(MaxPageLen)

-----------------------------------------------------------------------------
(* Python string operations used by the program.                           *)

CharAt(s, i) == SubSeq(s, i, i)

\* the characters str.strip() removes (those the model's texts can hold)
Whitespace == {" ", "\t", "\n", "\r", "\f"}

RECURSIVE lstrip(_)
lstrip(s) ==
    IF Len(s) > 0 /\ CharAt(s, 1) \in Whitespace
    THEN lstrip(SubSeq(s, 2, Len(s)))
    ELSE s

RECURSIVE rstrip(_)
rstrip(s) ==
    IF Len(s) > 0 /\ CharAt(s, Len(s)) \in Whitespace
    THEN rstrip(SubSeq(s, 1, Len(s) - 1))
    ELSE s

\* str.strip()
strip(s) == rstrip(lstrip(s))

\* "sep".join(parts)
RECURSIVE join(_, _)
join(sep, parts) ==
    IF Len(parts) = 0 THEN ""
    ELSE IF Len(parts) = 1 THEN parts[1]
    ELSE parts[1] \o sep \o join(sep, Tail(parts))

Upper == "ABCDEFGHIJKLMNOPQRSTUVWXYZ"
Lower == "abcdefghijklmnopqrstuvwxyz"

\* str.lower() of one character
lower_char(c) ==
    IF \E k \in 1..Len(Upper) : CharAt(Upper, k) = c
    THEN CharAt(Lower, CHOOSE k \in 1..Len(Upper) : CharAt(Upper, k) = c)
    ELSE c

\* str.lower()
RECURSIVE lower(_)
lower(s) ==
    IF Len(s) = 0 THEN ""
    ELSE lower_char(CharAt(s, 1)) \o lower(SubSeq(s, 2, Len(s)))

\* s.rfind(c): the last position of character c in s, 0 if there is none
rfind(s, c) ==
    LET hits == {k \in 1..Len(s) : CharAt(s, k) = c}
    IN  IF hits = {} THEN 0 ELSE CHOOSE k \in hits : \A j \in hits : j <= k

\* os.path.basename(p)
basename(p) == SubSeq(p, rfind(p, "/") + 1, Len(p))

\* os.path.splitext(p)[1]: from the last dot of the file name on, unless the
\* name has no dot or only leading dots
splitext_ext(p) ==
    LET sep == rfind(p, "/")
        dot == rfind(p, ".")
    IN  IF dot > sep /\ (\E k \in (sep + 1)..(dot - 1) : CharAt(p, k) # ".")
        THEN SubSeq(p, dot, Len(p))
        ELSE ""

-----------------------------------------------------------------------------
(* Files on disk and what the two parsing libraries make of them.          *)

\* a page object of an opened PDF: the extraction method it exposes
\* ("get_text", "getText" or "none"), the text that method returns, and
\* whether calling it raises
Pages ==
    {[method |-> m, text |-> t, fails |-> FALSE] :
        m \in {"get_text", "getText"}, t \in PageTexts}
    \cup {[method |-> "none", text |-> "", fails |-> FALSE]}
    \cup {[method |-> "get_text", text |-> "", fails |-> TRUE]}

SeqsUpTo(S, n) == UNION {[1..k -> S] : k \in 0..n}

\* a file's content: something fitz opens into pages, something python-docx
\* opens into paragraphs, or something neither library can open
Unreadable == [kind |-> "unreadable", pages |-> <<>>, paragraphs |-> <<>>]

Contents ==
    {[kind |-> "pages", pages |-> ps, paragraphs |-> <<>>] :
        ps \in SeqsUpTo(Pages, MaxPages)}
    \cup {[kind |-> "paragraphs", pages |-> <<>>, paragraphs |-> qs] :
        qs \in SeqsUpTo(PageTexts, MaxPages)}
    \cup {Unreadable}

\* paths the open dialog can return
Paths == {"/docs/cv.pdf", "/docs/CV.Docx", "/docs/notes.txt", "/docs/JD.PDF"}

\* the dialog was cancelled: getOpenFileName returns an empty path
NoFile == [path |-> "", content |-> Unreadable]

Files == {[path |-> p, content |-> c] : p \in Paths, c \in Contents} \cup {NoFile}

\* descriptions str(e) of the exceptions the libraries raise
DocxOpenError == "Package not found"
FitzOpenError == "Failed to open file"
PageReadError == "page read failed"

UnsupportedPlaceholder == "[Unsupported file type]"
NoMethodPlaceholder == "[Cannot extract text from page]"

\* f"[Error reading file: {e}]"
ErrorPlaceholder(e) == "[Error reading file: " \o e \o "]"

\* the body of the try block, as a value: the text built, or the exception
Done(text) == [ok |-> TRUE, text |-> text, msg |-> ""]
Raise(msg) == [ok |-> FALSE, text |-> "", msg |-> msg]

\* Faulty variant of read_pages: a page without an extraction method fails
\* the whole document.
RECURSIVE read_pages_failing_without_method(_, _)
read_pages_failing_without_method(pages, text) ==
    IF Len(pages) = 0 THEN Done(text)
    ELSE LET page == Head(pages)
         IN  IF page.method = "none" \/ page.fails
             THEN Raise(PageReadError)
             ELSE read_pages_failing_without_method(Tail(pages), text \o page.text)

\* the loop over the pages of an opened PDF, text being what was read so far
RECURSIVE read_pages(_, _)
read_pages(pages, text) ==
    IF Len(pages) = 0 THEN Done(text)
    ELSE LET page == Head(pages)
         IN  IF page.method = "none"
             THEN read_pages(Tail(pages), text \o NoMethodPlaceholder)
             ELSE IF page.fails
             THEN Raise(PageReadError)
             ELSE read_pages(Tail(pages), text \o page.text)

\* doc = fitz.open(file_path) and the loop over its pages
read_pdf(content) ==
    IF content.kind = "pages"
    THEN read_pages(content.pages, "")
    ELSE Raise(FitzOpenError)

\* doc = docx.Document(file_path) and the join of its paragraphs
read_docx(content) ==
    IF content.kind = "paragraphs"
    THEN Done(join("\n", content.paragraphs))
    ELSE Raise(DocxOpenError)

\* Faulty variant of caught: the exception is swallowed and the text left as
\* it is.
caught_swallowing(result) == result.text

\* except Exception as e: text = f"[Error reading file: {e}]"
caught(result) == IF result.ok THEN result.text ELSE ErrorPlaceholder(result.msg)

\* upload_resume's text for a selected file: the parser is chosen by the
\* lower-cased extension
resume_extract(file_path, content) ==
    LET ext == lower(splitext_ext(file_path))
    IN  IF ext = ".docx" THEN caught(read_docx(content))
        ELSE IF ext = ".pdf" THEN caught(read_pdf(content))
        ELSE UnsupportedPlaceholder

\* upload_job_description's text for a selected file: always read as a PDF
jd_extract(file_path, content) == caught(read_pdf(content))

-----------------------------------------------------------------------------
(* The prompt template of generate_resume, cut at its three placeholders.  *)

\* from the opening quotes up to {theme}
PromptHead ==
    "\n"
    \o "You are an advanced ATS resume optimization assistant.\n"
    \o "Thoroughly analyze the following job description and the uploaded resume. Create a new, top-quality, ATS-friendly resume that:\n"
    \o "- PRESERVE ALL SECTION TITLES, HEADERS, AND FORMATTING from the uploaded resume. Do NOT change the template, layout, or section names.\n"
    \o "- Only update the content within each section to better align with the job description, using information from the uploaded resume.\n"
    \o "- Intelligently expand and enhance the content within each section, but do NOT add new sections or change section titles.\n"
    \o "- Do NOT add any data or skills that are not present or implied in the uploaded resume unless the job description explicitly mentions them.\n"
    \o "- Use the '"

\* from {theme} up to {job}
PromptAfterTheme ==
    "' theme for tone and style if possible.\n"
    \o "- THE FINAL RESUME CONTENT MUST BE STRICTLY BETWEEN 550 AND 950 WORDS. If the content is too short, expand it with relevant details from the resume. If too long, summarize and condense as needed.\n"
    \o "- Minimize free spaces and ensure the formatting is compact, professional, and highly relevant for the specific job role.\n"
    \o "- The primary goal is to maximize ATS compatibility and ensure the resume is highly likely to be considered for the job role.\n"
    \o "\n"
    \o "---\n"
    \o "Job Description:\n"

\* from {job} up to {resume}
PromptAfterJob ==
    "\n"
    \o "---\n"
    \o "Resume:\n"

\* from {resume} to the closing quotes
PromptTail ==
    "\n"
    \o "---\n"
    \o "Output (new resume only, with the SAME section titles and structure as the uploaded resume):\n"

\* Faulty variant of compose_prompt: the theme is named in the output line too.
compose_prompt_naming_theme_twice(theme, job, resume) ==
    PromptHead \o theme \o PromptAfterTheme \o job \o PromptAfterJob
        \o resume \o "\n---\nOutput (" \o theme \o "):\n"

\* the f-string: the template with theme, job and resume interpolated
compose_prompt(theme, job, resume) ==
    PromptHead \o theme \o PromptAfterTheme \o job \o PromptAfterJob
        \o resume \o PromptTail

\* the items of self.theme_dropdown, in the order addItems adds them
Themes == <<"Modern", "Classic", "Creative", "Minimal">>

\* self.theme_dropdown.currentText() at index i
currentText(i) == Themes[i + 1]

-----------------------------------------------------------------------------
(* The endpoint's answer and call_gemini.                                  *)

\* a parsed JSON value, tagged with its Python type; an object is the
\* sequence of its <<key, value>> pairs
JStr(t) == [kind |-> "str", val |-> t]
JNull == [kind |-> "null", val |-> ""]
JNum == [kind |-> "num", val |-> ""]
JArr(xs) == [kind |-> "arr", val |-> xs]
JObj(pairs) == [kind |-> "obj", val |-> pairs]

\* the outcome of evaluating an expression: a value, or a raised exception
\* with its description str(e)
Value(v) == [ok |-> TRUE, val |-> v, msg |-> ""]
Throw(msg) == [ok |-> FALSE, val |-> JNull, msg |-> msg]

NotSubscriptable(v) ==
    IF v.kind = "null" THEN "'NoneType' object is not subscriptable"
    ELSE "'int' object is not subscriptable"

\* v[key] for a string key
getitem_key(v, key) ==
    IF v.kind = "obj"
    THEN IF \E i \in 1..Len(v.val) : v.val[i][1] = key
         THEN Value(v.val[CHOOSE i \in 1..Len(v.val) : v.val[i][1] = key][2])
         ELSE Throw("'" \o key \o "'")
    ELSE IF v.kind = "arr"
    THEN Throw("list indices must be integers or slices, not str")
    ELSE IF v.kind = "str"
    THEN Throw("string indices must be integers, not 'str'")
    ELSE Throw(NotSubscriptable(v))

\* Faulty variant of getitem_0: the last element instead of the first.
getitem_last(v) ==
    IF v.kind = "arr" /\ Len(v.val) > 0 THEN Value(v.val[Len(v.val)])
    ELSE Throw("list index out of range")

\* v[0]
getitem_0(v) ==
    IF v.kind = "arr"
    THEN IF Len(v.val) > 0 THEN Value(v.val[1])
         ELSE Throw("list index out of range")
    ELSE IF v.kind = "obj"
    THEN Throw("0")
    ELSE IF v.kind = "str"
    THEN IF Len(v.val) > 0 THEN Value(JStr(CharAt(v.val, 1)))
         ELSE Throw("string index out of range")
    ELSE Throw(NotSubscriptable(v))

\* evaluate the next subscript unless an earlier one raised
Then(r, Op(_)) == IF r.ok THEN Op(r.val) ELSE r

\* result["candidates"][0]["content"]["parts"][0]["text"]
first_candidate_text(result) ==
    LET c1 == getitem_key(result, "candidates")
        c2 == Then(c1, getitem_0)
        c3 == Then(c2, LAMBDA v : getitem_key(v, "content"))
        c4 == Then(c3, LAMBDA v : getitem_key(v, "parts"))
        c5 == Then(c4, getitem_0)
    IN  Then(c5, LAMBDA v : getitem_key(v, "text"))

\* the response body of a candidate list, each candidate holding one part
\* whose text field is the JSON value given
Candidate(tv) ==
    JObj(<< <<"content", JObj(<< <<"parts",
        JArr(<< JObj(<< <<"text", tv>> >>) >>)>> >>)>> >>)

WellFormed(tvs) ==
    JObj(<< <<"candidates", JArr([i \in 1..Len(tvs) |-> Candidate(tvs[i])])>> >>)

\* the text of a second candidate, which the client must not return
OtherCandidate == "b"

\* what the POST can meet: no connection, an error status, a body that is
\* not JSON, and JSON bodies of the expected and of other shapes
NetworkDown == [connected |-> FALSE, status |-> 0, is_json |-> FALSE, json |-> JNull]
Answer(status, is_json, json) ==
    [connected |-> TRUE, status |-> status, is_json |-> is_json, json |-> json]

TextReplies ==
    {Answer(200, TRUE, WellFormed(<<JStr(t)>>)) : t \in Texts}
    \cup {Answer(200, TRUE, WellFormed(<<JStr(t), JStr(OtherCandidate)>>)) :
            t \in PageTexts}

FailedReplies ==
    {NetworkDown,
     Answer(500, FALSE, JNull),
     Answer(200, FALSE, JNull),
     Answer(200, TRUE, JObj(<<>>)),
     Answer(200, TRUE, JArr(<<>>)),
     Answer(200, TRUE, WellFormed(<<>>)),
     Answer(200, TRUE, JObj(<< <<"candidates", JStr("x")>> >>)),
     Answer(200, TRUE, JObj(<< <<"candidates",
         JArr(<< JObj(<< <<"content", JObj(<< <<"parts",
             JArr(<< JObj(<<>>) >>)>> >>)>> >>) >>)>> >>))}

\* JSON bodies of the expected shape whose text field is not a string
NonTextReplies ==
    {Answer(200, TRUE, WellFormed(<<JNull>>)),
     Answer(200, TRUE, WellFormed(<<JNum>>))}

Replies == TextReplies \cup FailedReplies \cup NonTextReplies

\* no POST was made
NoReply == [connected |-> FALSE, status |-> 0 - 1, is_json |-> FALSE, json |-> JNull]

ConnectionErrorMsg == "Connection refused"
HTTPErrorMsg == "500 Server Error"
JSONDecodeErrorMsg == "Expecting value: line 1 column 1 (char 0)"

\* f"[Gemini API error: {e}]"
GeminiError(e) == "[Gemini API error: " \o e \o "]"

\* Faulty variant of requests_made: a request that met no connection is sent
\* again.
requests_made_retrying(prompt, r) ==
    IF r.connected THEN <<prompt>> ELSE <<prompt, prompt>>

\* the POSTs call_gemini(prompt) makes when the endpoint answers r: the one
\* requests.post of its try block, whatever comes of it
requests_made(prompt, r) == <<prompt>>

\* call_gemini(prompt) when the endpoint answers r: the Python value returned
call_gemini(prompt, r) ==
    IF ~r.connected THEN JStr(GeminiError(ConnectionErrorMsg))
    ELSE IF r.status >= 400 /\ r.status < 600
    THEN JStr(GeminiError(HTTPErrorMsg))
    ELSE IF ~r.is_json THEN JStr(GeminiError(JSONDecodeErrorMsg))
    ELSE LET text == first_candidate_text(r.json)
         IN  IF text.ok THEN text.val ELSE JStr(GeminiError(text.msg))

-----------------------------------------------------------------------------
(* The window: its state after construction and its slots.                 *)

ValidationMessage == "Please upload a resume and job description."
NoResumeLabel == "No resume uploaded"
NoJobLabel == "No job description uploaded"

\* f"Uploaded: {os.path.basename(file_path)}"
UploadedLabel(file_path) == "Uploaded: " \o basename(file_path)

\* what is recorded about the slot that has just run
Ran(slot, file, answer, posts, exc, written, opened) ==
    /\ last' = slot
    /\ picked' = file
    /\ reply' = answer
    /\ sent' = posts
    /\ raised' = exc
    /\ wrote' = written
    /\ browser' = opened

\* ResumeBuilder.__init__
Init ==
    /\ resume_text = ""
    /\ job_text = ""
    /\ last_saved_file = "None"
    /\ generated_resume_text = ""
    /\ job_input = ""
    /\ output_preview = ""
    /\ theme_dropdown = 0
    /\ resume_file_label = NoResumeLabel
    /\ jd_file_label = NoJobLabel
    /\ last = "init"
    /\ since_reset = FALSE
    /\ picked = NoFile
    /\ reply = NoReply
    /\ sent = <<>>
    /\ raised = ""
    /\ wrote = <<>>
    /\ browser = FALSE

\* upload_resume, the open dialog returning file f
upload_resume(f) ==
    /\ IF f.path = ""
       THEN UNCHANGED fields
       ELSE /\ resume_text' = resume_extract(f.path, f.content)
            /\ resume_file_label' = UploadedLabel(f.path)
            /\ UNCHANGED <<job_text, last_saved_file, generated_resume_text,
                           job_input, output_preview, theme_dropdown, jd_file_label>>
    /\ since_reset' = (since_reset /\ f.path = "")
    /\ Ran("upload_resume", f, NoReply, <<>>, "", <<>>, FALSE)

\* upload_job_description, the open dialog returning file f
upload_job_description(f) ==
    /\ IF f.path = ""
       THEN UNCHANGED fields
       ELSE /\ job_text' = jd_extract(f.path, f.content)
            /\ jd_file_label' = UploadedLabel(f.path)
            /\ job_input' = jd_extract(f.path, f.content)
            /\ UNCHANGED <<resume_text, last_saved_file, generated_resume_text,
                           output_preview, theme_dropdown, resume_file_label>>
    /\ since_reset' = (since_reset /\ f.path = "")
    /\ Ran("upload_job_description", f, NoReply, <<>>, "", <<>>, FALSE)

\* the user edits the job description box, leaving text t in it
type_job(t) ==
    /\ job_input' = t
    /\ UNCHANGED <<resume_text, job_text, last_saved_file, generated_resume_text,
                   output_preview, theme_dropdown, resume_file_label, jd_file_label>>
    /\ since_reset' = FALSE
    /\ Ran("type_job", NoFile, NoReply, <<>>, "", <<>>, FALSE)

\* the user picks item i of the theme dropdown
select_theme(i) ==
    /\ theme_dropdown' = i
    /\ UNCHANGED <<resume_text, job_text, last_saved_file, generated_resume_text,
                   job_input, output_preview, resume_file_label, jd_file_label>>
    /\ UNCHANGED since_reset
    /\ Ran("select_theme", NoFile, NoReply, <<>>, "", <<>>, FALSE)

\* Faulty variants of resume_of and job_of: the text is not trimmed.
resume_of_untrimmed(text) == text
job_of_untrimmed(typed, uploaded) == IF typed # "" THEN typed ELSE uploaded

\* resume, job and theme as generate_resume reads them
resume_of(text) == strip(text)
job_of(typed, uploaded) == IF strip(typed) # "" THEN strip(typed) ELSE strip(uploaded)

\* generate_resume, the endpoint answering r if it is asked
generate_resume(r) ==
    LET resume == resume_of(resume_text)
        job == job_of(job_input, job_text)
        theme == currentText(theme_dropdown)
        prompt == compose_prompt(theme, job, resume)
        output == call_gemini(prompt, r)
    IN  /\ IF resume = "" \/ job = ""
           THEN /\ output_preview' = ValidationMessage
                /\ UNCHANGED <<resume_text, job_text, last_saved_file,
                               generated_resume_text, job_input, theme_dropdown,
                               resume_file_label, jd_file_label>>
                /\ Ran("generate_resume", NoFile, r, <<>>, "", <<>>, FALSE)
           ELSE IF output.kind = "str"
           THEN /\ output_preview' = strip(output.val)
                /\ generated_resume_text' = strip(output.val)
                /\ UNCHANGED <<resume_text, job_text, last_saved_file, job_input,
                               theme_dropdown, resume_file_label, jd_file_label>>
                /\ Ran("generate_resume", NoFile, r, requests_made(prompt, r), "", <<>>,
                       FALSE)
           ELSE /\ UNCHANGED fields
                /\ Ran("generate_resume", NoFile, r, requests_made(prompt, r),
                       "AttributeError", <<>>, FALSE)
        /\ UNCHANGED since_reset

\* Faulty variant of reset_fields: the job description box is not cleared.
reset_fields_keeping_job_input ==
    /\ resume_text' = ""
    /\ job_text' = ""
    /\ output_preview' = ""
    /\ resume_file_label' = NoResumeLabel
    /\ jd_file_label' = NoJobLabel
    /\ theme_dropdown' = 0
    /\ last_saved_file' = "None"
    /\ generated_resume_text' = ""
    /\ UNCHANGED job_input
    /\ since_reset' = TRUE
    /\ Ran("reset_fields", NoFile, NoReply, <<>>, "", <<>>, FALSE)

\* reset_fields
reset_fields ==
    /\ resume_text' = ""
    /\ job_text' = ""
    /\ job_input' = ""
    /\ output_preview' = ""
    /\ resume_file_label' = NoResumeLabel
    /\ jd_file_label' = NoJobLabel
    /\ theme_dropdown' = 0
    /\ last_saved_file' = "None"
    /\ generated_resume_text' = ""
    /\ since_reset' = TRUE
    /\ Ran("reset_fields", NoFile, NoReply, <<>>, "", <<>>, FALSE)

\* the file a save slot writes: its name, its format and the text put in it
Written(file_name, format, text) ==
    <<[name |-> file_name, format |-> format, text |-> text]>>

\* save_pdf, the save dialog returning file_name and the message box
\* being answered with Open or not
save_pdf(file_name, open) ==
    /\ UNCHANGED since_reset
    /\ IF file_name = ""
       THEN /\ UNCHANGED fields
            /\ Ran("save_pdf", NoFile, NoReply, <<>>, "", <<>>, FALSE)
       ELSE /\ last_saved_file' = file_name
            /\ UNCHANGED <<resume_text, job_text, generated_resume_text, job_input,
                           output_preview, theme_dropdown, resume_file_label,
                           jd_file_label>>
            /\ Ran("save_pdf", NoFile, NoReply, <<>>, "",
                   Written(file_name, "pdf", output_preview), open)

\* save_txt, the save dialog returning file_name, the file being writable or
\* not, and the message box being answered with Open or not
save_txt(file_name, writable, open) ==
    /\ UNCHANGED since_reset
    /\ IF file_name = ""
       THEN /\ UNCHANGED fields
            /\ Ran("save_txt", NoFile, NoReply, <<>>, "", <<>>, FALSE)
       ELSE IF ~writable
       THEN /\ UNCHANGED fields
            /\ Ran("save_txt", NoFile, NoReply, <<>>, "OSError", <<>>, FALSE)
       ELSE /\ last_saved_file' = file_name
            /\ UNCHANGED <<resume_text, job_text, generated_resume_text, job_input,
                           output_preview, theme_dropdown, resume_file_label,
                           jd_file_label>>
            /\ Ran("save_txt", NoFile, NoReply, <<>>, "",
                   Written(file_name, "txt", output_preview), open)

-----------------------------------------------------------------------------
(* Specifications.                                                         *)

\* The whole session: every slot, on a small catalogue of inputs.
OnePage(t) == <<[method |-> "get_text", text |-> t, fails |-> FALSE]>>

SessionFiles ==
    {NoFile,
     [path |-> "/docs/cv.pdf",
      content |-> [kind |-> "pages", pages |-> OnePage("a"), paragraphs |-> <<>>]],
     [path |-> "/docs/CV.Docx",
      content |-> [kind |-> "paragraphs", pages |-> <<>>, paragraphs |-> <<"a">>]],
     [path |-> "/docs/notes.txt", content |-> Unreadable]}

SessionTyped == {"", " ", "a"}

SessionReplies ==
    {NetworkDown,
     Answer(200, TRUE, WellFormed(<<JNull>>)),
     Answer(200, TRUE, WellFormed(<<JStr(" a"), JStr(OtherCandidate)>>))}

SaveNames == {"", "/out/resume"}

Next ==
    \/ \E f \in SessionFiles : upload_resume(f)
    \/ \E f \in SessionFiles : upload_job_description(f)
    \/ \E t \in SessionTyped : type_job(t)
    \/ \E i \in 0..(Len(Themes) - 1) : select_theme(i)
    \/ \E r \in SessionReplies : generate_resume(r)
    \/ reset_fields
    \/ \E n \in SaveNames, open \in BOOLEAN : save_pdf(n, open)
    \/ \E n \in SaveNames, writable \in BOOLEAN, open \in BOOLEAN :
          save_txt(n, writable, open)

Spec == Init /\ [][Next]_vars

\* Extraction: one file of the full catalogue is on disk and is uploaded
\* through either slot.
InitExtract ==
    /\ resume_text = ""
    /\ job_text = ""
    /\ last_saved_file = "None"
    /\ generated_resume_text = ""
    /\ job_input = ""
    /\ output_preview = ""
    /\ theme_dropdown = 0
    /\ resume_file_label = NoResumeLabel
    /\ jd_file_label = NoJobLabel
    /\ last = "init"
    /\ since_reset = FALSE
    /\ picked \in Files
    /\ reply = NoReply
    /\ sent = <<>>
    /\ raised = ""
    /\ wrote = <<>>
    /\ browser = FALSE

NextExtract ==
    \/ upload_resume(picked)
    \/ upload_job_description(picked)

SpecExtract == InitExtract /\ [][NextExtract]_vars

\* Generation: the session holds any resume text, uploaded job text, typed
\* job text and theme (a resume and a job description were uploaded, a theme
\* picked and the job box edited), the endpoint answers in one of the ways
\* of Replies, and Generate is pressed.
InitGenerate ==
    /\ resume_text \in Texts
    /\ job_text \in PageTexts
    /\ last_saved_file = "None"
    /\ generated_resume_text = ""
    /\ job_input \in Texts
    /\ output_preview = ""
    /\ theme_dropdown \in 0..(Len(Themes) - 1)
    /\ resume_file_label = UploadedLabel("/docs/cv.pdf")
    /\ jd_file_label = UploadedLabel("/docs/JD.PDF")
    /\ last = "type_job"
    /\ since_reset = FALSE
    /\ picked = NoFile
    /\ reply \in Replies
    /\ sent = <<>>
    /\ raised = ""
    /\ wrote = <<>>
    /\ browser = FALSE

NextGenerate == generate_resume(reply)

SpecGenerate == InitGenerate /\ [][NextGenerate]_vars

\* Prompt composition: as for generation, the endpoint answering with one
\* fixed text.
InitCompose ==
    /\ InitGenerate
    /\ reply = Answer(200, TRUE, WellFormed(<<JStr("a")>>))

SpecCompose == InitCompose /\ [][NextGenerate]_vars

-----------------------------------------------------------------------------
(* Properties.                                                             *)

\* generate_resume ran and found both texts non-empty after trimming
Dispatchable ==
    /\ strip(resume_text) # ""
    /\ strip(job_input) # "" \/ strip(job_text) # ""

Generated == last = "generate_resume"
Dispatched == Generated /\ Dispatchable

\* the job text and the resume text after trimming, the typed job text
\* taking precedence over the uploaded one
TrimmedJob == IF strip(job_input) # "" THEN strip(job_input) ELSE strip(job_text)
TrimmedResume == strip(resume_text)

\* the job text as the session holds it, untrimmed
HeldJob == IF strip(job_input) # "" THEN job_input ELSE job_text

StartsWith(s, x) == Len(s) >= Len(x) /\ SubSeq(s, 1, Len(x)) = x
EndsWith(s, x) == Len(s) >= Len(x) /\ SubSeq(s, Len(s) - Len(x) + 1, Len(s)) = x
Occurs(x, s) == \E k \in 1..(Len(s) - Len(x) + 1) : SubSeq(s, k, k + Len(x) - 1) = x

\* the first position of x in s (x occurs in s)
Find(x, s) ==
    CHOOSE k \in 1..(Len(s) - Len(x) + 1) :
        /\ SubSeq(s, k, k + Len(x) - 1) = x
        /\ \A j \in 1..(k - 1) : SubSeq(s, j, j + Len(x) - 1) # x

\* the part of s between the first label and the first delimiter after it
Section(s, label, delimiter) ==
    LET rest == SubSeq(s, Find(label, s) + Len(label), Len(s))
    IN  SubSeq(rest, 1, Find(delimiter, rest) - 1)

\* C1: when the resume text or the job text (typed, else uploaded) is empty
\* after trimming, generate_resume shows the validation message and makes no
\* call to the endpoint.
C1_EmptyInputShortCircuits ==
    (Generated /\ ~Dispatchable) =>
        /\ output_preview = ValidationMessage
        /\ sent = <<>>
        /\ raised = ""

\* a job box holding only blanks over an uploaded job text that is blank too
C1_Witness ==
    /\ Generated
    /\ strip(resume_text) # ""
    /\ job_input # "" /\ strip(job_input) = ""
    /\ job_text # "" /\ strip(job_text) = ""
    /\ output_preview = ValidationMessage
    /\ sent = <<>>

\* paths whose extension selects the PDF parser, and the DOCX parser
PdfPaths == {"/docs/cv.pdf", "/docs/JD.PDF"}
DocxPaths == {"/docs/CV.Docx"}
OtherPaths == {"/docs/notes.txt"}

Uploaded(slot) == last = slot /\ picked.path # ""

\* the description of the failure of reading c as a PDF, "" if there is none
PdfFailure(c) ==
    IF c.kind # "pages" THEN FitzOpenError
    ELSE IF \E k \in 1..Len(c.pages) : c.pages[k].fails THEN PageReadError
    ELSE ""

DocxFailure(c) == IF c.kind # "paragraphs" THEN DocxOpenError ELSE ""

\* C2: whatever fails while a selected file is opened or read, the upload
\* slot raises nothing and stores "[Error reading file: <description>]".
C2_UploadFailureIsPlaceholder ==
    /\ (Uploaded("upload_resume") /\ picked.path \in PdfPaths
            /\ PdfFailure(picked.content) # "") =>
        /\ raised = ""
        /\ resume_text = "[Error reading file: " \o PdfFailure(picked.content) \o "]"
    /\ (Uploaded("upload_resume") /\ picked.path \in DocxPaths
            /\ DocxFailure(picked.content) # "") =>
        /\ raised = ""
        /\ resume_text = "[Error reading file: " \o DocxFailure(picked.content) \o "]"
    /\ (Uploaded("upload_job_description") /\ PdfFailure(picked.content) # "") =>
        /\ raised = ""
        /\ job_text = "[Error reading file: " \o PdfFailure(picked.content) \o "]"
        /\ job_input = job_text

\* a PDF whose first page is read and whose second page fails to be read
C2_Witness ==
    /\ Uploaded("upload_resume")
    /\ picked.path \in PdfPaths
    /\ picked.content.kind = "pages"
    /\ Len(picked.content.pages) = 2
    /\ picked.content.pages[1].text = "a"
    /\ picked.content.pages[2].fails
    /\ resume_text = "[Error reading file: page read failed]"

\* C3: a file whose extension is neither .pdf nor .docx yields exactly
\* "[Unsupported file type]" through either upload slot, which stores it and
\* raises nothing.
C3_UnsupportedTypePlaceholder ==
    /\ (Uploaded("upload_resume") /\ picked.path \in OtherPaths) =>
        (resume_text = "[Unsupported file type]" /\ raised = "")
    /\ (Uploaded("upload_job_description") /\ picked.path \in OtherPaths) =>
        (job_text = "[Unsupported file type]" /\ raised = "")

\* the remote call failed: no connection, an error status, a body that is not
\* JSON, or JSON without a first candidate text that is a string
RemoteCallFailed ==
    ~(\E t \in Texts, more \in {<<>>, <<JStr(OtherCandidate)>>} :
        reply = Answer(200, TRUE, WellFormed(<<JStr(t)>> \o more)))

\* C4: when the remote call of a dispatched generation fails, no exception
\* escapes generate_resume and the result text is a placeholder embedding the
\* error description.
C4_RemoteFailureIsPlaceholder ==
    (Dispatched /\ RemoteCallFailed) =>
        /\ raised = ""
        /\ StartsWith(output_preview, "[Gemini API error: ")
        /\ EndsWith(output_preview, "]")
        /\ generated_resume_text = output_preview

\* C5 as stated: the displayed output and the stored generated text are
\* exactly the text T the generation client returns.
C5_OutputIsReturnedText ==
    \A t \in Texts, more \in {<<>>, <<JStr(OtherCandidate)>>} :
        (Dispatched /\ reply = Answer(200, TRUE, WellFormed(<<JStr(t)>> \o more))) =>
            (output_preview = t /\ generated_resume_text = t)

\* C5, amended: the displayed output and the stored generated text are the
\* text T the generation client returns (the first candidate's text) with
\* its leading and trailing whitespace removed.
C5_OutputIsTrimmedReturnedText ==
    \A t \in Texts, more \in {<<>>, <<JStr(OtherCandidate)>>} :
        (Dispatched /\ reply = Answer(200, TRUE, WellFormed(<<JStr(t)>> \o more))) =>
            /\ output_preview = strip(t)
            /\ generated_resume_text = strip(t)
            /\ raised = ""

\* the endpoint returned " a"; "a" is displayed and stored
C5_Witness ==
    /\ Dispatched
    /\ reply = Answer(200, TRUE, WellFormed(<<JStr(" a")>>))
    /\ output_preview = "a"
    /\ generated_resume_text = "a"

\* the prompt the dispatched generation POSTed, and the selected theme
Prompt == sent[1]
Theme == Themes[theme_dropdown + 1]

OutputLine ==
    "Output (new resume only, with the SAME section titles and structure as the uploaded resume):\n"

\* C6 as stated: the prompt holds the job text and the resume text exactly as
\* the session holds them, the job text between the "Job Description:" label
\* and the following "---", the resume text between the "Resume:" label and
\* the following "---", and holds the theme label.
C6_PromptEmbedsHeldTexts ==
    Dispatched =>
        /\ Occurs(HeldJob, Section(Prompt, "Job Description:", "---"))
        /\ Occurs(resume_text, Section(Prompt, "Resume:", "---"))
        /\ Occurs(Theme, Prompt)

\* C6, amended: the prompt holds the job text and the resume text with their
\* leading and trailing whitespace removed, the trimmed job text on the lines
\* between the "Job Description:" line and a "---" line, the trimmed resume
\* text on the lines between the "Resume:" line and a "---" line, and holds
\* the selected theme label in its "Use the '...' theme" instruction.
C6_PromptEmbedsTrimmedTexts ==
    Dispatched =>
        /\ Len(sent) = 1
        /\ EndsWith(Prompt,
              "\n---\nJob Description:\n" \o TrimmedJob
              \o "\n---\nResume:\n" \o TrimmedResume
              \o "\n---\n" \o OutputLine)
        /\ StartsWith(Prompt, PromptHead \o Theme \o "' theme for tone and style")
        /\ EndsWith(PromptHead, "- Use the '")

\* a resume held with a leading blank and a typed job text with a trailing one
C6_Witness ==
    /\ Dispatched
    /\ resume_text = " a"
    /\ job_input = "a "
    /\ Section(Prompt, "Job Description:", "---") = "\na\n"
    /\ Section(Prompt, "Resume:", "---") = "\na\n"

\* s with the n characters from position k on replaced by x
Splice(s, k, n, x) == SubSeq(s, 1, k - 1) \o x \o SubSeq(s, k + n, Len(s))

\* where the quoted theme starts in a prompt: after "- Use the '"
ThemeAt == Len(PromptHead) + 1

\* C7: for fixed resume and job text, the prompts of two themes differ only in
\* the quoted theme of the "Use the ... theme" instruction: putting the other
\* theme there in the prompt of one theme gives the prompt of the other.
C7_ThemeChangesOnlyItsReference ==
    Dispatched =>
        \A i \in 1..Len(Themes) :
            /\ SubSeq(Prompt, ThemeAt - 1, ThemeAt + Len(Theme)) = "'" \o Theme \o "'"
            /\ compose_prompt(Themes[i], TrimmedJob, TrimmedResume)
                  = Splice(Prompt, ThemeAt, Len(Theme), Themes[i])
            /\ (Themes[i] # Theme) =>
                  compose_prompt(Themes[i], TrimmedJob, TrimmedResume) # Prompt

\* a prompt composed for the theme Creative
C7_Witness ==
    /\ Dispatched
    /\ Theme = "Creative"
    /\ Splice(Prompt, ThemeAt, Len("Creative"), "Modern")
          = compose_prompt("Modern", TrimmedJob, TrimmedResume)

\* C8: generate_resume makes exactly one POST when the request is
\* dispatchable, whatever the endpoint answers, and none otherwise; no other
\* slot makes one.
C8_AtMostOnePost ==
    /\ Dispatched => Len(sent) = 1
    /\ (Generated /\ ~Dispatchable) => Len(sent) = 0
    /\ ~Generated => Len(sent) = 0

\* a dispatched generation whose request failed: it was sent once
C8_Witness ==
    /\ Dispatched
    /\ reply = NetworkDown
    /\ Len(sent) = 1
    /\ output_preview = "[Gemini API error: Connection refused]"

\* the piece of the extracted text one page contributes
PagePiece(page) ==
    IF page.method = "none" THEN "[Cannot extract text from page]" ELSE page.text

\* the pieces of the pages, concatenated in page order
RECURSIVE ConcatPieces(_)
ConcatPieces(pages) ==
    IF Len(pages) = 0 THEN ""
    ELSE ConcatPieces(SubSeq(pages, 1, Len(pages) - 1)) \o PagePiece(pages[Len(pages)])

\* the file opens as a PDF and every page that has an extraction method is read
ReadablePdf(c) == c.kind = "pages" /\ \A k \in 1..Len(c.pages) : ~c.pages[k].fails

C10_ResetClearsSession ==
    /\ last = "reset_fields" =>
        /\ resume_text = ""
        /\ job_text = ""
        /\ job_input = ""
        /\ output_preview = ""
        /\ generated_resume_text = ""
        /\ Theme = "Modern"
        /\ last_saved_file = "None"
        /\ sent = <<>>
    /\ (Generated /\ since_reset) =>
        /\ output_preview = "Please upload a resume and job description."
        /\ sent = <<>>
        /\ resume_text = ""
        /\ job_text = ""
        /\ job_input = ""
        /\ generated_resume_text = ""

\* Generate pressed after a reset
C10_Witness ==
    /\ Generated
    /\ since_reset
    /\ output_preview = "Please upload a resume and job description."
    /\ sent = <<>>

====
